---- MODULE Spec2Model ----
(***************************************************************************)
(* MCP QuickJS Runner: the run_javascript_code tool and the sandbox run    *)
(* operation runQuickJsInSandbox.                                          *)
(*                                                                         *)
(* The repository holds two implementations of the server:                 *)
(*   src/server.ts          - WASI wired without capture files, the        *)
(*                            outcome's streams are placeholders;          *)
(*   src/unnamed/part_000   - capture through a temporary directory and    *)
(*                            two files, exit code reported.               *)
(* The variable "variant" says which of the two the process runs.          *)
(*                                                                         *)
(* Node runs the code of one continuation (between two awaits) without     *)
(* interruption, so every action below is one such continuation: it takes  *)
(* the outcome of the awaited operation as its input and runs to the next  *)
(* await.                                                                  *)
(*                                                                         *)
(* Text is a sequence of tokens; " " and "\n" are the whitespace tokens,   *)
(* every other token stands for a run of non-whitespace characters.        *)
(***************************************************************************)
EXTENDS Integers, Sequences, FiniteSets, TLC

\* ----------------------------------------------------------------- bounds
NumInvocations == 2   \* requests the model follows, in any interleaving
MaxLen == 1           \* longest text a script writes to one stream

Invocations == 1..NumInvocations
\* the names mkdtemp draws from: one per request is enough for it to find a
\* free name every time
Dirs == 1..NumInvocations

\* ------------------------------------------------------------------- text
NL == "\n"
IsSpace(t) == t \in {" ", NL}

RECURSIVE TrimStart(_)
TrimStart(s) ==
    IF s = <<>> THEN <<>>
    ELSE IF IsSpace(Head(s)) THEN TrimStart(Tail(s)) ELSE s

RECURSIVE TrimEnd(_)
TrimEnd(s) ==
    IF s = <<>> THEN <<>>
    ELSE IF IsSpace(s[Len(s)]) THEN TrimEnd(SubSeq(s, 1, Len(s) - 1)) ELSE s

\* String.prototype.trim
Trim(s) == TrimEnd(TrimStart(s))

\* a string in a condition: the empty string (and undefined) is falsy
Truthy(s) == s # <<>>

\* s occurs in t as a contiguous piece
Includes(t, s) ==
    \E k \in 0..(Len(t) - Len(s)) : SubSeq(t, k + 1, k + Len(s)) = s

RECURSIVE SeqsUpTo(_, _)
SeqsUpTo(A, n) ==
    IF n = 0 THEN {<<>>}
    ELSE LET shorter == SeqsUpTo(A, n - 1)
         IN  shorter \cup {Append(s, a) : s \in {x \in shorter : Len(x) = n - 1}, a \in A}

\* ------------------------------------------------------ scripts (the input)
\* What QuickJS does with the javascript_code of invocation i: the text it
\* writes to each stream (marked with the invocation, so that output can be
\* told apart), and how wasi.start ends: it returns the exit status, or it
\* raises a host-level exception after the writes, or (hangs) the script
\* loops for ever after the writes and wasi.start never returns.
Marker(i) == "m" \o ToString(i)
ExitCodes == {0, 1}
OutTexts(i) == SeqsUpTo({Marker(i)}, MaxLen)
ErrTexts(i) == SeqsUpTo({Marker(i), " "}, MaxLen)
Scripts(i) ==
    {s \in [out : OutTexts(i), err : ErrTexts(i), exit : ExitCodes,
             throws : BOOLEAN, hangs : BOOLEAN] :
        /\ s.throws => s.exit = 0 /\ ~s.hangs
        /\ s.hangs => s.exit = 0}
NoScript == [out |-> <<>>, err |-> <<>>, exit |-> 0, throws |-> FALSE, hangs |-> FALSE]

\* err.message of the rejection of a host operation
Msg(op) == "E_" \o op

VARIABLES
    variant,            \* "server_ts" or "part_000"
    phase,              \* "loading", "loaded", "connecting", "serving", "exited"
    compiledWasmModule, \* "undefined" or "compiled"
    toolRegistered,     \* server.tool(...) has run
    processExit,        \* -1 while the process lives, else its exit code
    pc,                 \* per invocation: the await it is suspended at
    tempDir,            \* per invocation: 0 (undefined) or the directory
    stdoutHandle,       \* per invocation: "undefined" or "set"
    stderrHandle,
    exitCode,           \* per invocation: what wasi.start returned
    capturedStdout,     \* per invocation: text read back from stdout.log
    result,             \* per invocation: the outcome the run operation returns
    response,           \* per invocation: the tool response
    fs,                 \* the temporary directories and their two files
    script,             \* history: what the script of the invocation did
    started,            \* history: wasi.start was called
    failedStep,         \* history: the host operation that failed first
    handlerFault,       \* history: an exception was raised in the handler's try
    calls,              \* history: calls of close on each handle and of rm
    accepted            \* history: the process has accepted a request

vars == <<variant, phase, compiledWasmModule, toolRegistered, processExit, pc,
          tempDir, stdoutHandle, stderrHandle, exitCode, capturedStdout, result,
          response, fs, script, started, failedStep, handlerFault, calls, accepted>>

lifecycle == <<variant, phase, compiledWasmModule, toolRegistered, processExit>>
locals == <<tempDir, stdoutHandle, stderrHandle, exitCode, capturedStdout>>

\* wasi.start runs the script on the thread of the event loop: while a
\* script is inside it, no continuation of the process runs
Blocked == \E j \in Invocations : pc[j] = "start"

NoDir == [exists |-> FALSE, owner |-> 0, out |-> <<>>, err |-> <<>>,
          outOpen |-> FALSE, errOpen |-> FALSE]
NoResult == [stdout |-> <<>>, stderr |-> <<>>, error |-> <<>>]
NoResponse == [text |-> <<>>, isError |-> FALSE]
NoCalls == [closeStdout |-> 0, closeStderr |-> 0, rm |-> 0]

Init ==
    /\ variant \in {"server_ts", "part_000"}
    /\ phase = "loading"
    /\ compiledWasmModule = "undefined"
    /\ toolRegistered = FALSE
    /\ processExit = -1
    /\ pc = [i \in Invocations |-> "idle"]
    /\ tempDir = [i \in Invocations |-> 0]
    /\ stdoutHandle = [i \in Invocations |-> "undefined"]
    /\ stderrHandle = [i \in Invocations |-> "undefined"]
    /\ exitCode = [i \in Invocations |-> 0]
    /\ capturedStdout = [i \in Invocations |-> <<>>]
    /\ result = [i \in Invocations |-> NoResult]
    /\ response = [i \in Invocations |-> NoResponse]
    /\ fs = [d \in Dirs |-> NoDir]
    /\ script = [i \in Invocations |-> NoScript]
    /\ started = [i \in Invocations |-> FALSE]
    /\ failedStep = [i \in Invocations |-> "none"]
    /\ handlerFault = [i \in Invocations |-> FALSE]
    /\ calls = [i \in Invocations |-> NoCalls]
    /\ accepted = FALSE

\* ---------------------------------------------------------------- startup
\* (mutant) the catch logs the failure and returns without ending the process
loadAndCompileWasm_noExit ==
    /\ phase = "loading"
    /\ \E ok \in BOOLEAN :
        /\ compiledWasmModule' = IF ok THEN "compiled" ELSE compiledWasmModule
        /\ phase' = "loaded"
        /\ processExit' = processExit
    /\ UNCHANGED <<variant, toolRegistered, pc, locals, result, response, fs,
                   script, started, failedStep, handlerFault, calls, accepted>>

\* loadAndCompileWasm: readFile and WebAssembly.compile succeed, or the catch
\* ends the process with exit code 1.
loadAndCompileWasm ==
    /\ phase = "loading"
    /\ \E ok \in BOOLEAN :
        IF ok
        THEN /\ compiledWasmModule' = "compiled"
             /\ phase' = "loaded"
             /\ processExit' = processExit
        ELSE /\ compiledWasmModule' = compiledWasmModule
             /\ phase' = "exited"
             /\ processExit' = 1
    /\ UNCHANGED <<calls, variant, toolRegistered, pc, locals, result, response, fs,
                   script, started, failedStep, handlerFault, accepted>>

\* startServer after the load: (part_000 only) exit if there is no module;
\* new McpServer, server.tool(...), new StdioServerTransport, and the call of
\* server.connect.
startServer ==
    /\ phase = "loaded"
    /\ IF variant = "part_000" /\ compiledWasmModule = "undefined"
       THEN /\ phase' = "exited"
            /\ processExit' = 1
            /\ toolRegistered' = toolRegistered
       ELSE /\ phase' = "connecting"
            /\ toolRegistered' = TRUE
            /\ processExit' = processExit
    /\ UNCHANGED <<calls, variant, compiledWasmModule, pc, locals, result, response, fs,
                   script, started, failedStep, handlerFault, accepted>>

\* await server.connect(transport): the transport listens, or the rejection
\* reaches startServer().catch, which ends the process with exit code 1.
connect ==
    /\ phase = "connecting"
    /\ \E ok \in BOOLEAN :
        IF ok
        THEN /\ phase' = "serving"
             /\ processExit' = processExit
        ELSE /\ phase' = "exited"
             /\ processExit' = 1
    /\ UNCHANGED <<calls, variant, compiledWasmModule, toolRegistered, pc, locals, result,
                   response, fs, script, started, failedStep, handlerFault, accepted>>

\* ------------------------------------------- the run operation (part_000)
\* where the finally block suspends next, from its first, second and third
\* statement on; "returned" when nothing is left to await
FinallyRmPc(dir) == IF dir # 0 THEN "finallyRm" ELSE "returned"
FinallyStderrPc(errH, dir) ==
    IF errH = "set" THEN "finallyCloseStderr" ELSE FinallyRmPc(dir)
FinallyPc(outH, errH, dir) ==
    IF outH = "set" THEN "finallyCloseStdout" ELSE FinallyStderrPc(errH, dir)

\* (mutant) the outer catch returns empty streams and forgets the error
CatchResult_noError(op) == [stdout |-> <<>>, stderr |-> <<>>, error |-> <<>>]

\* the outer catch: the outcome it returns
CatchResult(op) ==
    [stdout |-> <<>>, stderr |-> <<>>,
     error |-> <<"Sandbox setup or execution failed: ", Msg(op)>>]

\* the catch of wasi.start: the outcome it returns
StartErrorResult ==
    [stdout |-> <<>>,
     stderr |-> <<"WASI start error: ", Msg("start")>>,
     error |-> <<"Sandbox execution failed during start: ", Msg("start")>>]

\* (mutant) the exit code message is set whatever the code
MainResult_alwaysError(out, err, code) ==
    [stdout |-> out, stderr |-> err,
     error |-> <<"QuickJS process exited with code ", ToString(code),
                 ". Check stderr for details.">>]

\* the outcome of the main path
MainResult(out, err, code) ==
    [stdout |-> out, stderr |-> err,
     error |-> IF code # 0
               THEN <<"QuickJS process exited with code ", ToString(code),
                      ". Check stderr for details.">>
               ELSE <<>>]

\* (mutant) a fixed directory name, created if missing
mkdtemp_fixedName == {1}

\* the names mkdtemp can return: it creates a directory that does not exist
mkdtemp == {d \in Dirs : ~fs[d].exists}

\* The tool handler accepts a request and calls runQuickJsInSandbox, which
\* runs up to its first await, mkdtemp.
Request(i) ==
    /\ variant = "part_000"
    /\ phase = "serving"
    /\ pc[i] = "idle"
    /\ ~Blocked
    /\ pc' = [pc EXCEPT ![i] = "mkdtemp"]
    /\ accepted' = TRUE
    /\ UNCHANGED <<calls, lifecycle, locals, result, response, fs, script, started,
                   failedStep, handlerFault>>

\* tempDir = await mkdtemp(...); then open(stdoutPath, "w") is called
Mkdtemp(i) ==
    /\ variant = "part_000"
    /\ pc[i] = "mkdtemp"
    /\ ~Blocked
    /\ \/ \E d \in mkdtemp :
            /\ fs' = [fs EXCEPT ![d] = [NoDir EXCEPT !.exists = TRUE, !.owner = i]]
            /\ tempDir' = [tempDir EXCEPT ![i] = d]
            /\ pc' = [pc EXCEPT ![i] = "openStdout"]
            /\ UNCHANGED <<result, failedStep>>
       \/ /\ result' = [result EXCEPT ![i] = CatchResult("mkdtemp")]
          /\ failedStep' = [failedStep EXCEPT ![i] = "mkdtemp"]
          /\ pc' = [pc EXCEPT ![i] = FinallyPc(stdoutHandle[i], stderrHandle[i], tempDir[i])]
          /\ UNCHANGED <<fs, tempDir>>
    /\ UNCHANGED <<calls, lifecycle, stdoutHandle, stderrHandle, exitCode, capturedStdout,
                   response, script, started, handlerFault, accepted>>

\* stdoutHandle = await open(stdoutPath, "w"): the file is created empty
OpenStdout(i) ==
    /\ variant = "part_000"
    /\ pc[i] = "openStdout"
    /\ ~Blocked
    /\ \/ /\ fs[tempDir[i]].exists
          /\ fs' = [fs EXCEPT ![tempDir[i]].out = <<>>, ![tempDir[i]].outOpen = TRUE]
          /\ stdoutHandle' = [stdoutHandle EXCEPT ![i] = "set"]
          /\ pc' = [pc EXCEPT ![i] = "openStderr"]
          /\ UNCHANGED <<result, failedStep>>
       \/ /\ result' = [result EXCEPT ![i] = CatchResult("open_stdout")]
          /\ failedStep' = [failedStep EXCEPT ![i] = "open_stdout"]
          /\ pc' = [pc EXCEPT ![i] = FinallyPc(stdoutHandle[i], stderrHandle[i], tempDir[i])]
          /\ UNCHANGED <<fs, stdoutHandle>>
    /\ UNCHANGED <<calls, lifecycle, tempDir, stderrHandle, exitCode, capturedStdout,
                   response, script, started, handlerFault, accepted>>

\* stderrHandle = await open(stderrPath, "w"); then new WASI({... stdout:
\* stdoutFd, stderr: stderrFd, returnOnExit: true}) and the call of
\* WebAssembly.instantiate
OpenStderr(i) ==
    /\ variant = "part_000"
    /\ pc[i] = "openStderr"
    /\ ~Blocked
    /\ \/ /\ fs[tempDir[i]].exists
          /\ fs' = [fs EXCEPT ![tempDir[i]].err = <<>>, ![tempDir[i]].errOpen = TRUE]
          /\ stderrHandle' = [stderrHandle EXCEPT ![i] = "set"]
          /\ pc' = [pc EXCEPT ![i] = "instantiate"]
          /\ UNCHANGED <<result, failedStep>>
       \/ /\ result' = [result EXCEPT ![i] = CatchResult("open_stderr")]
          /\ failedStep' = [failedStep EXCEPT ![i] = "open_stderr"]
          /\ pc' = [pc EXCEPT ![i] = FinallyPc(stdoutHandle[i], stderrHandle[i], tempDir[i])]
          /\ UNCHANGED <<fs, stderrHandle>>
    /\ UNCHANGED <<calls, lifecycle, tempDir, stdoutHandle, exitCode, capturedStdout,
                   response, script, started, handlerFault, accepted>>

\* the writes of the script through the two descriptors wired into WASI:
\* they land in the files the handles were opened on
ScriptWrites(d, s) ==
    [fs EXCEPT ![d].out = fs[d].out \o s.out, ![d].err = fs[d].err \o s.err]

\* instance = await WebAssembly.instantiate(...); exitCode =
\* wasi.start(instance), which runs the script to its end before it returns
\* or throws (and never returns if the script never ends); then stdoutHandle.close() is called, or the catch of
\* wasi.start returns and the finally block begins.
Instantiate(i) ==
    /\ variant = "part_000"
    /\ pc[i] = "instantiate"
    /\ ~Blocked
    /\ \/ \E s \in Scripts(i) :
            /\ fs' = ScriptWrites(tempDir[i], s)
            /\ script' = [script EXCEPT ![i] = s]
            /\ started' = [started EXCEPT ![i] = TRUE]
            /\ IF s.hangs
               THEN /\ pc' = [pc EXCEPT ![i] = "start"]
                    /\ UNCHANGED <<result, failedStep, exitCode>>
               ELSE IF s.throws
               THEN /\ result' = [result EXCEPT ![i] = StartErrorResult]
                    /\ failedStep' = [failedStep EXCEPT ![i] = "start"]
                    /\ pc' = [pc EXCEPT ![i] =
                                FinallyPc(stdoutHandle[i], stderrHandle[i], tempDir[i])]
                    /\ UNCHANGED exitCode
               ELSE /\ exitCode' = [exitCode EXCEPT ![i] = s.exit]
                    /\ pc' = [pc EXCEPT ![i] = "closeStdout"]
                    /\ UNCHANGED <<result, failedStep>>
       \/ /\ result' = [result EXCEPT ![i] = CatchResult("instantiate")]
          /\ failedStep' = [failedStep EXCEPT ![i] = "instantiate"]
          /\ pc' = [pc EXCEPT ![i] = FinallyPc(stdoutHandle[i], stderrHandle[i], tempDir[i])]
          /\ UNCHANGED <<fs, script, started, exitCode>>
    /\ UNCHANGED <<calls, lifecycle, tempDir, stdoutHandle, stderrHandle, capturedStdout,
                   response, handlerFault, accepted>>

\* (mutant) stdoutHandle.close() is called but not awaited: the run goes on
\* whether or not the descriptor has been released
CloseStdout_notAwaited(i) ==
    /\ variant = "part_000"
    /\ pc[i] = "closeStdout"
    /\ ~Blocked
    /\ \E released \in BOOLEAN :
        fs' = [fs EXCEPT ![tempDir[i]].outOpen = ~released]
    /\ stdoutHandle' = [stdoutHandle EXCEPT ![i] = "undefined"]
    /\ pc' = [pc EXCEPT ![i] = "closeStderr"]
    /\ calls' = [calls EXCEPT ![i].closeStdout = @ + 1]
    /\ UNCHANGED <<lifecycle, tempDir, stderrHandle, exitCode, capturedStdout, result,
                   failedStep, response, script, started, handlerFault, accepted>>

\* await stdoutHandle.close(); stdoutHandle = undefined; then
\* stderrHandle.close() is called.  A close that fails may or may not have
\* released the descriptor.
CloseStdout(i) ==
    /\ variant = "part_000"
    /\ pc[i] = "closeStdout"
    /\ ~Blocked
    /\ \/ /\ fs' = [fs EXCEPT ![tempDir[i]].outOpen = FALSE]
          /\ stdoutHandle' = [stdoutHandle EXCEPT ![i] = "undefined"]
          /\ pc' = [pc EXCEPT ![i] = "closeStderr"]
          /\ UNCHANGED <<result, failedStep>>
       \/ \E released \in BOOLEAN :
            /\ fs' = [fs EXCEPT ![tempDir[i]].outOpen = ~released]
            /\ result' = [result EXCEPT ![i] = CatchResult("close_stdout")]
            /\ failedStep' = [failedStep EXCEPT ![i] = "close_stdout"]
            /\ pc' = [pc EXCEPT ![i] =
                        FinallyPc(stdoutHandle[i], stderrHandle[i], tempDir[i])]
            /\ UNCHANGED stdoutHandle
    /\ calls' = [calls EXCEPT ![i].closeStdout = @ + 1]
    /\ UNCHANGED <<lifecycle, tempDir, stderrHandle, exitCode, capturedStdout,
                   response, script, started, handlerFault, accepted>>

\* await stderrHandle.close(); stderrHandle = undefined; then
\* readFile(stdoutPath) is called
CloseStderr(i) ==
    /\ variant = "part_000"
    /\ pc[i] = "closeStderr"
    /\ ~Blocked
    /\ \/ /\ fs' = [fs EXCEPT ![tempDir[i]].errOpen = FALSE]
          /\ stderrHandle' = [stderrHandle EXCEPT ![i] = "undefined"]
          /\ pc' = [pc EXCEPT ![i] = "readStdout"]
          /\ UNCHANGED <<result, failedStep>>
       \/ \E released \in BOOLEAN :
            /\ fs' = [fs EXCEPT ![tempDir[i]].errOpen = ~released]
            /\ result' = [result EXCEPT ![i] = CatchResult("close_stderr")]
            /\ failedStep' = [failedStep EXCEPT ![i] = "close_stderr"]
            /\ pc' = [pc EXCEPT ![i] =
                        FinallyPc(stdoutHandle[i], stderrHandle[i], tempDir[i])]
            /\ UNCHANGED stderrHandle
    /\ calls' = [calls EXCEPT ![i].closeStderr = @ + 1]
    /\ UNCHANGED <<lifecycle, tempDir, stdoutHandle, exitCode, capturedStdout,
                   response, script, started, handlerFault, accepted>>

\* capturedStdout = await readFile(stdoutPath, "utf8"); then
\* readFile(stderrPath) is called
ReadStdout(i) ==
    /\ variant = "part_000"
    /\ pc[i] = "readStdout"
    /\ ~Blocked
    /\ \/ /\ fs[tempDir[i]].exists
          /\ capturedStdout' = [capturedStdout EXCEPT ![i] = fs[tempDir[i]].out]
          /\ pc' = [pc EXCEPT ![i] = "readStderr"]
          /\ UNCHANGED <<result, failedStep>>
       \/ /\ result' = [result EXCEPT ![i] = CatchResult("read_stdout")]
          /\ failedStep' = [failedStep EXCEPT ![i] = "read_stdout"]
          /\ pc' = [pc EXCEPT ![i] = FinallyPc(stdoutHandle[i], stderrHandle[i], tempDir[i])]
          /\ UNCHANGED capturedStdout
    /\ UNCHANGED <<calls, lifecycle, tempDir, stdoutHandle, stderrHandle, exitCode,
                   response, fs, script, started, handlerFault, accepted>>

\* capturedStderr = await readFile(stderrPath, "utf8"); the outcome is built
\* and returned, and the finally block begins
ReadStderr(i) ==
    /\ variant = "part_000"
    /\ pc[i] = "readStderr"
    /\ ~Blocked
    /\ \/ /\ fs[tempDir[i]].exists
          /\ result' = [result EXCEPT ![i] =
                          MainResult(capturedStdout[i], fs[tempDir[i]].err, exitCode[i])]
          /\ UNCHANGED failedStep
       \/ /\ result' = [result EXCEPT ![i] = CatchResult("read_stderr")]
          /\ failedStep' = [failedStep EXCEPT ![i] = "read_stderr"]
    /\ pc' = [pc EXCEPT ![i] = FinallyPc(stdoutHandle[i], stderrHandle[i], tempDir[i])]
    /\ UNCHANGED <<calls, lifecycle, locals, response, fs, script, started, handlerFault,
                   accepted>>

\* finally: if (stdoutHandle) await stdoutHandle.close(); a failure is
\* swallowed by the catch of the finally block, which ends the block
FinallyCloseStdout(i) ==
    /\ variant = "part_000"
    /\ pc[i] = "finallyCloseStdout"
    /\ ~Blocked
    /\ \/ /\ fs' = [fs EXCEPT ![tempDir[i]].outOpen = FALSE]
          /\ pc' = [pc EXCEPT ![i] = FinallyStderrPc(stderrHandle[i], tempDir[i])]
       \/ \E released \in BOOLEAN :
            /\ fs' = [fs EXCEPT ![tempDir[i]].outOpen = ~released /\ @]
            /\ pc' = [pc EXCEPT ![i] = "returned"]
    /\ calls' = [calls EXCEPT ![i].closeStdout = @ + 1]
    /\ UNCHANGED <<lifecycle, locals, result, response, script, started, failedStep,
                   handlerFault, accepted>>

\* finally: if (stderrHandle) await stderrHandle.close()
FinallyCloseStderr(i) ==
    /\ variant = "part_000"
    /\ pc[i] = "finallyCloseStderr"
    /\ ~Blocked
    /\ \/ /\ fs' = [fs EXCEPT ![tempDir[i]].errOpen = FALSE]
          /\ pc' = [pc EXCEPT ![i] = FinallyRmPc(tempDir[i])]
       \/ \E released \in BOOLEAN :
            /\ fs' = [fs EXCEPT ![tempDir[i]].errOpen = ~released /\ @]
            /\ pc' = [pc EXCEPT ![i] = "returned"]
    /\ calls' = [calls EXCEPT ![i].closeStderr = @ + 1]
    /\ UNCHANGED <<lifecycle, locals, result, response, script, started, failedStep,
                   handlerFault, accepted>>

\* (mutant) the finally block has no try/catch of its own: a failure of rm
\* leaves the run operation rejected
FinallyRm_rejects(i) ==
    /\ variant = "part_000"
    /\ pc[i] = "finallyRm"
    /\ ~Blocked
    /\ \/ /\ fs' = [fs EXCEPT ![tempDir[i]].exists = FALSE,
                              ![tempDir[i]].out = <<>>, ![tempDir[i]].err = <<>>]
          /\ pc' = [pc EXCEPT ![i] = "returned"]
       \/ /\ fs' = fs
          /\ pc' = [pc EXCEPT ![i] = "rejected"]
    /\ calls' = [calls EXCEPT ![i].rm = @ + 1]
    /\ UNCHANGED <<lifecycle, locals, result, response, script, started, failedStep,
                   handlerFault, accepted>>

\* finally: if (tempDir) await rm(tempDir, {recursive, force}); the
\* directory and its files are gone, or the failure is swallowed
FinallyRm(i) ==
    /\ variant = "part_000"
    /\ pc[i] = "finallyRm"
    /\ ~Blocked
    /\ \/ fs' = [fs EXCEPT ![tempDir[i]].exists = FALSE,
                           ![tempDir[i]].out = <<>>, ![tempDir[i]].err = <<>>]
       \/ fs' = fs
    /\ pc' = [pc EXCEPT ![i] = "returned"]
    /\ calls' = [calls EXCEPT ![i].rm = @ + 1]
    /\ UNCHANGED <<lifecycle, locals, result, response, script, started, failedStep,
                   handlerFault, accepted>>

\* ------------------------------------------ the tool handler (part_000)
NoOutputMarker == <<"--- Execution Success (No Output, Exit Code 0) ---">>

\* combinedOutput of the handler: each stream that is not empty between two
\* delimiter lines, or the "no output" marker
combinedOutput(r) ==
    LET out == IF Truthy(r.stdout)
               THEN <<"--- stdout ---", NL>> \o r.stdout \o <<NL, "--- stdout ---", NL>>
               ELSE <<>>
        err == IF Truthy(r.stderr)
               THEN <<"--- stderr ---", NL>> \o r.stderr \o <<NL, "--- stderr ---", NL>>
               ELSE <<>>
        exe == IF Truthy(r.error)
               THEN <<"--- Execution Error ---", NL>> \o r.error
                    \o <<NL, "--- Execution Error ---", NL>>
               ELSE <<>>
    IN  IF ~Truthy(r.stdout) /\ ~Truthy(r.stderr) /\ ~Truthy(r.error)
        THEN NoOutputMarker
        ELSE out \o err \o exe

\* isError of the handler
isError(r) == Truthy(r.error) \/ (Truthy(r.stderr) /\ Len(Trim(r.stderr)) > 0)

\* the response of the handler's try block
ToolResponse(r) == [text |-> Trim(combinedOutput(r)), isError |-> isError(r)]

\* (mutant) the catch block answers without the error flag
ServerErrorResponse_notFlagged(msg) ==
    [text |-> <<"Server error during tool execution: ", msg>>, isError |-> FALSE]

\* the response of the handler's catch block
ServerErrorResponse(msg) ==
    [text |-> <<"Server error during tool execution: ", msg>>, isError |-> TRUE]

\* The handler's continuation after await runQuickJsInSandbox(...): it
\* builds the response; an exception raised in the try block (fault) is
\* caught by the handler's catch, which builds the error response.
ToolHandler(i) ==
    /\ variant = "part_000"
    /\ pc[i] = "returned"
    /\ ~Blocked
    /\ \E fault \in BOOLEAN :
        /\ handlerFault' = [handlerFault EXCEPT ![i] = fault]
        /\ response' = [response EXCEPT ![i] =
                          IF fault THEN ServerErrorResponse(Msg("handler"))
                          ELSE ToolResponse(result[i])]
    /\ pc' = [pc EXCEPT ![i] = "responded"]
    /\ UNCHANGED <<calls, lifecycle, locals, result, fs, script, started, failedStep, accepted>>

\* --------------------------------------------- the run operation (server.ts)
\* the outcome of the try block: placeholders
PlaceholderResult == [stdout |-> <<>>, stderr |-> <<>>, error |-> <<>>]

\* the outcome of the catch block
CatchResult_server_ts(op) ==
    [stdout |-> <<>>, stderr |-> <<>>,
     error |-> <<"Sandbox execution failed: ", Msg(op)>>]

\* The tool handler accepts a request and calls runQuickJsInSandbox: new
\* WASI({... stdout: stdoutFd, stderr: stderrFd}) with both variables
\* undefined, so the script's streams are the process's own descriptors 1
\* and 2 (no capture file exists), then the call of WebAssembly.instantiate.
Request_server_ts(i) ==
    /\ variant = "server_ts"
    /\ phase = "serving"
    /\ pc[i] = "idle"
    /\ ~Blocked
    /\ pc' = [pc EXCEPT ![i] = "instantiate"]
    /\ accepted' = TRUE
    /\ UNCHANGED <<calls, lifecycle, locals, result, response, fs, script, started,
                   failedStep, handlerFault>>

\* (mutant) WASI without returnOnExit semantics: a script that exits with a
\* non-zero status ends the Node process with that status
Instantiate_server_ts_exits(i) ==
    /\ variant = "server_ts"
    /\ pc[i] = "instantiate"
    /\ ~Blocked
    /\ \E s \in Scripts(i) :
        /\ script' = [script EXCEPT ![i] = s]
        /\ started' = [started EXCEPT ![i] = TRUE]
        /\ result' = [result EXCEPT ![i] = PlaceholderResult]
        /\ failedStep' = failedStep
        /\ pc' = [pc EXCEPT ![i] = "returned"]
        /\ IF s.exit # 0
           THEN phase' = "exited" /\ processExit' = s.exit
           ELSE UNCHANGED <<phase, processExit>>
    /\ UNCHANGED <<calls, variant, compiledWasmModule, toolRegistered, locals, response,
                   fs, handlerFault, accepted>>

\* instance = await WebAssembly.instantiate(...); wasi.start(instance) in a
\* try whose catch only logs; the placeholder outcome is returned.  A
\* rejection of instantiate reaches the outer catch.
Instantiate_server_ts(i) ==
    /\ variant = "server_ts"
    /\ pc[i] = "instantiate"
    /\ ~Blocked
    /\ \/ \E s \in Scripts(i) :
            /\ script' = [script EXCEPT ![i] = s]
            /\ started' = [started EXCEPT ![i] = TRUE]
            /\ IF s.hangs
               THEN /\ pc' = [pc EXCEPT ![i] = "start"]
                    /\ UNCHANGED <<result, failedStep>>
               ELSE /\ result' = [result EXCEPT ![i] = PlaceholderResult]
                    /\ failedStep' = [failedStep EXCEPT ![i] =
                                        IF s.throws THEN "start" ELSE "none"]
                    /\ pc' = [pc EXCEPT ![i] = "returned"]
       \/ /\ result' = [result EXCEPT ![i] = CatchResult_server_ts("instantiate")]
          /\ failedStep' = [failedStep EXCEPT ![i] = "instantiate"]
          /\ pc' = [pc EXCEPT ![i] = "returned"]
          /\ UNCHANGED <<script, started>>
    /\ UNCHANGED <<calls, lifecycle, locals, response, fs, handlerFault, accepted>>

\* ------------------------------------------ the tool handler (server.ts)
NoOutputMarker_server_ts == <<"--- Execution Success (No Output) ---">>

combinedOutput_server_ts(r) ==
    LET out == IF Truthy(r.stdout)
               THEN <<"--- stdout ---", NL>> \o r.stdout \o <<NL>>
               ELSE <<>>
        err == IF Truthy(r.stderr)
               THEN <<"--- stderr ---", NL>> \o r.stderr \o <<NL>>
               ELSE <<>>
        exe == IF Truthy(r.error)
               THEN <<"--- Execution Error ---", NL>> \o r.error \o <<NL>>
               ELSE <<>>
    IN  IF ~Truthy(r.stdout) /\ ~Truthy(r.stderr) /\ ~Truthy(r.error)
        THEN NoOutputMarker_server_ts
        ELSE out \o err \o exe

\* the response of the handler's try block: isError is computed and logged,
\* the response carries the literal false
ToolResponse_server_ts(r) ==
    [text |-> Trim(combinedOutput_server_ts(r)), isError |-> FALSE]

ToolHandler_server_ts(i) ==
    /\ variant = "server_ts"
    /\ pc[i] = "returned"
    /\ ~Blocked
    /\ \E fault \in BOOLEAN :
        /\ handlerFault' = [handlerFault EXCEPT ![i] = fault]
        /\ response' = [response EXCEPT ![i] =
                          IF fault THEN ServerErrorResponse(Msg("handler"))
                          ELSE ToolResponse_server_ts(result[i])]
    /\ pc' = [pc EXCEPT ![i] = "responded"]
    /\ UNCHANGED <<calls, lifecycle, locals, result, fs, script, started, failedStep, accepted>>

\* one continuation of invocation i
Step(i) ==
    \/ Request(i)
    \/ Mkdtemp(i)
    \/ OpenStdout(i)
    \/ OpenStderr(i)
    \/ Instantiate(i)
    \/ CloseStdout(i)
    \/ CloseStderr(i)
    \/ ReadStdout(i)
    \/ ReadStderr(i)
    \/ FinallyCloseStdout(i)
    \/ FinallyCloseStderr(i)
    \/ FinallyRm(i)
    \/ ToolHandler(i)
    \/ Request_server_ts(i)
    \/ Instantiate_server_ts(i)
    \/ ToolHandler_server_ts(i)

Next ==
    \/ loadAndCompileWasm
    \/ startServer
    \/ connect
    \/ \E i \in Invocations : Step(i)

\* the requests of the process interleave freely
Spec == Init /\ [][Next]_vars

NextOne ==
    \/ loadAndCompileWasm
    \/ startServer
    \/ connect
    \/ Step(1)

\* the process serves a single request
SpecOne == Init /\ [][NextOne]_vars

\* the same, with the event loop running every continuation that is ready
SpecOneLive == Init /\ [][NextOne]_vars /\ WF_vars(NextOne)

\* ================================================================= claims
\* the run operation of invocation i has returned its outcome
Returned(i) == pc[i] \in {"returned", "responded"}
\* the tool handler of invocation i has produced its response
Responded(i) == pc[i] = "responded"
\* the run operation of invocation i has begun and has not returned
InFlight(i) == pc[i] \notin {"idle", "returned", "responded"}
\* the script of invocation i ran to its end: wasi.start returned a status
Finished(i) == started[i] /\ ~script[i].throws /\ ~script[i].hangs

\* no host operation of the run failed and no exception was raised in the
\* handler
Clean(i) == failedStep[i] = "none" /\ ~handlerFault[i]

\* C1: when the run operation has returned, on every path, the two file
\* handles it opened are closed and the temporary directory it created is
\* removed.  Stated in the claim's favour: a resource whose own close or rm
\* was called and failed is not counted as left behind.
C1_ResourcesReleased ==
    \A i \in Invocations :
        Returned(i) =>
            \A d \in Dirs :
                fs[d].owner = i =>
                    /\ fs[d].outOpen => calls[i].closeStdout > 0
                    /\ fs[d].errOpen => calls[i].closeStderr > 0
                    /\ fs[d].exists => calls[i].rm > 0

\* C2: invocations in flight at the same time never share a temporary
\* directory (hence no output file), and an outcome never carries text
\* written by the script of another invocation.
C2_NoCrossContamination ==
    /\ \A i, j \in Invocations :
        (i # j /\ InFlight(i) /\ InFlight(j) /\ tempDir[i] # 0) => tempDir[i] # tempDir[j]
    /\ \A i, j \in Invocations :
        (i # j /\ Returned(i)) =>
            /\ ~Includes(result[i].stdout, <<Marker(j)>>)
            /\ ~Includes(result[i].stderr, <<Marker(j)>>)
    /\ \A i \in Invocations :
        (Returned(i) /\ Finished(i) /\ failedStep[i] = "none" /\ variant = "part_000") =>
            result[i].stdout = script[i].out /\ result[i].stderr = script[i].err

\* one invocation has returned its own marker on both streams while the
\* other, which also wrote its marker, is still in flight
C2_Witness ==
    \E i, j \in Invocations :
        /\ i # j
        /\ Returned(i)
        /\ result[i].stdout = <<Marker(i)>>
        /\ result[i].stderr = <<Marker(i)>>
        /\ pc[j] = "readStderr"
        /\ capturedStdout[j] = <<Marker(j)>>
        /\ tempDir[i] # tempDir[j]

\* C3: when the script has finished without a host-level exception, the
\* outcome's stdout is exactly what it wrote to standard output and the
\* outcome's stderr exactly what it wrote to standard error.  Stated in the
\* claim's favour: for runs in which no host operation failed.
C3_StreamsCapturedExactly ==
    \A i \in Invocations :
        (Returned(i) /\ Finished(i) /\ failedStep[i] = "none") =>
            result[i].stdout = script[i].out /\ result[i].stderr = script[i].err

\* C4: when wasi.start raises a host-level exception after the script wrote
\* partial output, the outcome's streams contain that partial output.
C4_PartialOutputCaptured ==
    \A i \in Invocations :
        (Returned(i) /\ started[i] /\ script[i].throws) =>
            /\ Includes(result[i].stdout, script[i].out)
            /\ Includes(result[i].stderr, script[i].err)

\* C5: a script that exits 0 and writes text that is not only whitespace to
\* stderr gets a response with isError = true whose content includes the
\* stderr text.  Stated in the claim's favour: for runs in which no host
\* operation failed and no exception was raised in the handler.
C5_StderrFlagsError ==
    \A i \in Invocations :
        (Responded(i) /\ Finished(i) /\ Clean(i) /\ script[i].exit = 0
            /\ Trim(script[i].err) # <<>>) =>
            response[i].isError /\ Includes(response[i].text, script[i].err)

\* C6: a script that ends with a non-zero exit status gets a response with
\* isError = true whose content includes its stdout (if any), its stderr (if
\* any) and the exit code.  Stated in the claim's favour, as C5.
C6_NonZeroExitReported ==
    \A i \in Invocations :
        (Responded(i) /\ Finished(i) /\ Clean(i) /\ script[i].exit # 0) =>
            /\ response[i].isError
            /\ Includes(response[i].text, script[i].out)
            /\ Includes(response[i].text, script[i].err)
            /\ Includes(response[i].text, <<ToString(script[i].exit)>>)

\* C7: a script that exits 0 and writes only to stdout gets a response whose
\* content equals the stdout text and whose isError is false.  Stated in the
\* claim's favour, as C5.
C7_StdoutOnlyIsContent ==
    \A i \in Invocations :
        (Responded(i) /\ Finished(i) /\ Clean(i) /\ script[i].exit = 0
            /\ script[i].out # <<>> /\ script[i].err = <<>>) =>
            response[i].text = script[i].out /\ ~response[i].isError

\* the script of invocation i wrote nothing and exited 0
Silent(i) ==
    /\ Finished(i)
    /\ script[i].exit = 0
    /\ script[i].out = <<>>
    /\ script[i].err = <<>>

\* the "no output" marker of the implementation the process runs
Marker_NoOutput ==
    IF variant = "part_000" THEN NoOutputMarker ELSE NoOutputMarker_server_ts

\* C8 as claimed: a script that writes nothing and exits 0 gets the "no
\* output" marker as content, with isError = false (whatever happens to the
\* capture files after the script has ended).
C8_SilentYieldsMarker_AsClaimed ==
    \A i \in Invocations :
        (Responded(i) /\ Silent(i) /\ ~handlerFault[i]) =>
            response[i].text = Marker_NoOutput /\ ~response[i].isError

\* C8 (amended): a script that writes nothing and exits 0 gets the "no
\* output" marker as content, with isError = false, provided closing and
\* reading back the capture files succeed and the handler raises nothing;
\* when one of these fails the response has isError = true and names the
\* failure.
C8_SilentYieldsMarker ==
    \A i \in Invocations :
        (Responded(i) /\ Silent(i)) =>
            IF Clean(i)
            THEN response[i].text = Marker_NoOutput /\ ~response[i].isError
            ELSE /\ response[i].isError
                 /\ \/ Includes(response[i].text, <<Msg(failedStep[i])>>)
                    \/ Includes(response[i].text, <<Msg("handler")>>)

\* a silent script of part_000 has been answered with the marker
C8_Witness ==
    \E i \in Invocations :
        /\ variant = "part_000"
        /\ Responded(i) /\ Silent(i) /\ Clean(i)
        /\ calls[i].rm = 1
        /\ response[i] = [text |-> NoOutputMarker, isError |-> FALSE]

\* C9: if the module cannot be loaded the process ends with a non-zero exit
\* code before the tool is registered and before the transport is connected,
\* and no request is accepted; no request is handled while there is no
\* compiled module.
C9_NoServingWithoutModule ==
    /\ compiledWasmModule = "undefined" =>
        /\ ~toolRegistered
        /\ phase \in {"loading", "exited"}
        /\ ~accepted
        /\ \A i \in Invocations : pc[i] = "idle"
    /\ (phase = "exited" /\ compiledWasmModule = "undefined") => processExit > 0
    /\ (\E i \in Invocations : pc[i] # "idle") =>
        compiledWasmModule = "compiled" /\ phase = "serving"

\* the load failed and the process has ended
C9_Witness ==
    /\ phase = "exited"
    /\ compiledWasmModule = "undefined"
    /\ processExit = 1
    /\ ~toolRegistered

\* C10: an exception raised in the handler's try block is caught by the
\* handler: the invocation still gets a response, with isError = true and a
\* text that describes the server error.
C10_HandlerCatchesFaults ==
    \A i \in Invocations :
        handlerFault[i] =>
            /\ Responded(i)
            /\ response[i].isError
            /\ response[i].text =
                 <<"Server error during tool execution: ", Msg("handler")>>

\* an exception was raised in a handler and the response is there
C10_Witness ==
    \E i \in Invocations :
        handlerFault[i] /\ Responded(i) /\ response[i].isError

\* C11: every accepted request eventually receives a response, whatever the
\* script does, a script that never terminates included.
C11_EveryRequestAnswered ==
    \A i \in Invocations : (pc[i] # "idle") ~> Responded(i)

\* C12: while one invocation is inside the synchronous wasi.start, every
\* other request in flight can still take its next step.
C12_HungScriptStallsNobody ==
    \A i, j \in Invocations :
        (i # j /\ pc[i] = "start" /\ InFlight(j) /\ pc[j] # "start") => ENABLED Step(j)

\* the host operations that allocate the capture backing stores
SetupSteps == {"mkdtemp", "open_stdout", "open_stderr"}

\* C13: when mkdtemp or one of the two opens fails, the invocation never
\* reaches WebAssembly.instantiate or wasi.start; the outcome has empty
\* stdout and stderr and an error text describing the failure, and the
\* response the handler builds from it has isError = true and includes that
\* text.
C13_SetupFailureIsReported ==
    \A i \in Invocations :
        failedStep[i] \in SetupSteps =>
            /\ ~started[i]
            /\ script[i] = NoScript
            /\ pc[i] \in {"finallyCloseStdout", "finallyCloseStderr", "finallyRm",
                          "returned", "responded"}
            /\ result[i].stdout = <<>>
            /\ result[i].stderr = <<>>
            /\ Includes(result[i].error, <<Msg(failedStep[i])>>)
            /\ (Responded(i) /\ ~handlerFault[i]) =>
                /\ response[i].isError
                /\ Includes(response[i].text, result[i].error)

\* the open of stderr.log failed and the request has been answered
C13_Witness ==
    \E i \in Invocations :
        /\ failedStep[i] = "open_stderr"
        /\ Responded(i) /\ ~handlerFault[i]
        /\ response[i].isError
        /\ calls[i].closeStdout = 1

\* C14: once a request has been accepted the process never terminates,
\* whatever the outcome of a request; the process terminates only during
\* startup, before any request.
C14_RequestsNeverEndTheProcess ==
    /\ accepted => (phase = "serving" /\ processExit = -1)
    /\ phase = "exited" => (~accepted /\ \A i \in Invocations : pc[i] = "idle")
    /\ \A i \in Invocations :
        (pc[i] # "idle") => (phase = "serving" /\ processExit = -1)

\* a request whose script exited non-zero has been answered and the process
\* still serves
C14_Witness ==
    \E i \in Invocations :
        /\ Responded(i)
        /\ Finished(i) /\ script[i].exit # 0
        /\ phase = "serving"
        /\ processExit = -1

\* C15: while a read-back of a capture file is pending or done, wasi.start
\* has returned and both handles have been closed.
C15_ReadBackAfterClose ==
    \A i \in Invocations :
        (pc[i] \in {"readStdout", "readStderr"} \/ capturedStdout[i] # <<>>) =>
            /\ Finished(i)
            /\ stdoutHandle[i] = "undefined"
            /\ stderrHandle[i] = "undefined"
            /\ ~fs[tempDir[i]].outOpen
            /\ ~fs[tempDir[i]].errOpen
            /\ calls[i].closeStdout = 1
            /\ calls[i].closeStderr = 1

\* stdout.log has been read back and the read of stderr.log is pending
C15_Witness ==
    \E i \in Invocations :
        /\ pc[i] = "readStderr"
        /\ capturedStdout[i] = <<Marker(i)>>
        /\ ~fs[tempDir[i]].outOpen /\ ~fs[tempDir[i]].errOpen

\* C16: the run operation never rejects: whenever it has ended it has
\* returned an outcome with the fields stdout, stderr and error, also when a
\* step of its cleanup failed.
C16_RunNeverRejects ==
    \A i \in Invocations :
        /\ pc[i] # "rejected"
        /\ Returned(i) =>
            /\ DOMAIN result[i] = {"stdout", "stderr", "error"}
            /\ (failedStep[i] # "none" /\ variant = "part_000") => Truthy(result[i].error)

\* rm failed in the finally block and the run operation has returned
C16_Witness ==
    \E i \in Invocations, d \in Dirs :
        /\ Returned(i)
        /\ fs[d].owner = i /\ fs[d].exists
        /\ calls[i].rm = 1

\* C17: the "no output" marker is the content of a response only when the
\* script wrote nothing to either stream and exited 0.
C17_MarkerOnlyWhenSilent ==
    \A i \in Invocations :
        (Responded(i) /\ response[i].text = Marker_NoOutput) => Silent(i)

\* C18: close is called at most once on each output file handle, on every
\* path.
C18_CloseAtMostOnce ==
    \A i \in Invocations :
        calls[i].closeStdout <= 1 /\ calls[i].closeStderr <= 1

====
